---- MODULE Spec2Model ----
(***************************************************************************)
(* Model of nuki3ctl.py: one invocation of main(), from the merge of the   *)
(* command-line arguments with config.json to process exit, including the  *)
(* name resolver (resolve_name_to_id) and the retry loop                   *)
(* (perform_action_with_retry).  The bridge is the environment: every HTTP *)
(* request nondeterministically raises a RequestException or returns a     *)
(* JSON body.                                                              *)
(*                                                                         *)
(* Python's None is the empty sequence and a present value v is <<v>>.     *)
(* A body that cannot be parsed is a RequestException (requests >= 2.27,   *)
(* where JSONDecodeError derives from RequestException).                   *)
(***************************************************************************)
EXTENDS Integers, Sequences, FiniteSets

\* ---------------------------------------------------------------- bounds
MaxRetry == 2
MaxDevices == 3
MaxId == 1

\* config.get('retry', 3)
DefaultRetry == 3

\* ------------------------------------------------------------ value sets
None == <<>>
Some(v) == <<v>>

Actions == {"open", "close", "status", "list", "info", "openall", "closeall"}
DeviceActions == {"open", "close", "status"}
BulkActions == {"openall", "closeall"}

Names == {"Front", "Back"}
\* a name no device of the bridge carries
AbsentName == "Side"
Ids == 0..MaxId
\* the id given with -id (a non-empty string, so always truthy) and the one
\* of config.json
FlagId == MaxId + 2
ConfigId == MaxId + 1

\* one object of the /list response: the two keys the program reads
Devices == [name : Names, nukiId : Ids]

RECURSIVE SeqsUpTo(_, _)
SeqsUpTo(S, n) ==
    IF n = 0 THEN {<<>>}
    ELSE LET shorter == SeqsUpTo(S, n - 1)
         IN shorter \cup {Append(s, x) : s \in {t \in shorter : Len(t) = n - 1}, x \in S}

DeviceLists == SeqsUpTo(Devices, MaxDevices)

\* a /lockAction or /lockState body: the 'success' key (absent, true or
\* false) and whether a 'state' key is present
Bodies == [success : {"absent", "true", "false"}, state : BOOLEAN]

OptStrings == {None, Some("set")}
ArgRetries == {None} \cup {Some(n) : n \in (-1)..MaxRetry}
CfgRetries == {None} \cup {Some(n) : n \in 0..MaxRetry}

VARIABLES
    pc,            \* position in main() / perform_action_with_retry()
    action,        \* args.action (None when omitted)
    nuki_ip,       \* line 123
    nuki_token,    \* line 124
    args_nukiid,   \* args.nukiid
    args_name,     \* args.name
    nuki_id,       \* line 125, overwritten at line 147
    retry,         \* line 126
    devices_data,  \* the parsed /list response
    dev_idx,       \* position of the for loop of line 182
    url,           \* the url handed to perform_action_with_retry
    attempt,       \* loop variable of line 92
    success,       \* line 90
    last_resp,     \* line 91
    exit_error,    \* which parser.error ended the run ("none" otherwise)
    net,           \* requests sent to the bridge so far, per endpoint
    attempts,      \* attempts of the current retry run
    sleeps,        \* time.sleep calls of the current retry run
    firstOk,       \* number of the first attempt judged successful (0: none)
    lastOutcome,   \* outcome of the latest attempt of the current run
    reports,       \* per-device outcome lines printed by openall/closeall
    runs,          \* calls of perform_action_with_retry so far
    received,      \* the body the bridge sent last in the current retry run
    printed_error  \* which except clause of main printed its message ("none" otherwise)

vars == <<pc, action, nuki_ip, nuki_token, args_nukiid, args_name, nuki_id,
          retry, devices_data, dev_idx, url, attempt, success, last_resp,
          exit_error, net, attempts, sleeps, firstOk, lastOutcome, reports,
          runs, received, printed_error>>

\* ------------------------------------------------------- pure functions

\* Python truthiness of an optional string (None and '' are both falsy; the
\* model has no empty string) and of an optional JSON number
TruthyStr(o) == o # None
TruthyNum(o) == o # None /\ o[1] # 0

\* a or b  on optional strings / numbers
PyOrStr(a, b) == IF TruthyStr(a) THEN a ELSE b
PyOrNum(a, b) == IF TruthyNum(a) THEN a ELSE b

\* line 126: args.retry or config.get('retry', 3)
EffectiveRetry(argRetry, cfgRetry) ==
    IF TruthyNum(argRetry) THEN argRetry[1]
    ELSE IF cfgRetry = None THEN DefaultRetry ELSE cfgRetry[1]

\* the check as it would be with `and` in place of `or`
MissingBothCredentials(ip, token) == ~TruthyStr(ip) /\ ~TruthyStr(token)

\* line 138: not nuki_ip or not nuki_token
MissingCredentials(ip, token) == ~TruthyStr(ip) \/ ~TruthyStr(token)

\* the test as it would be if a given name always won over a given id
NeedsNameResolutionByNameAlone(nukiid, name) == TruthyStr(name)

\* line 145: not args.nukiid and args.name
NeedsNameResolution(nukiid, name) == ~TruthyNum(nukiid) /\ TruthyStr(name)

\* line 151: not nuki_id
MissingTarget(id) == ~TruthyNum(id)

\* the resolver as it would be if the scan kept the last match
RECURSIVE LastMatch(_, _)
LastMatch(devices, device_name) ==
    IF devices = <<>> THEN None
    ELSE IF LastMatch(Tail(devices), device_name) # None
         THEN LastMatch(Tail(devices), device_name)
         ELSE IF Head(devices).name = device_name THEN Some(Head(devices).nukiId)
              ELSE None

\* lines 81-84: the nukiId of the first device whose name equals device_name,
\* None when the loop falls through to the raise of line 84
RECURSIVE FirstMatch(_, _)
FirstMatch(devices, device_name) ==
    IF devices = <<>> THEN None
    ELSE IF Head(devices).name = device_name THEN Some(Head(devices).nukiId)
    ELSE FirstMatch(Tail(devices), device_name)

\* the policy as it would be if the presence of the 'success' key were enough
JudgedByKeyPresence(body) == body.success # "absent" \/ body.state

\* line 97: last_resp.get('success', False) or 'state' in last_resp
JudgedSuccessful(body) == body.success = "true" \/ body.state

\* the loop as it would be with range(1, retry_count) and with
\* range(1, retry_count + 2)
HasNextAttemptShort(a, retry_count) == a + 1 < retry_count
HasNextAttemptLong(a, retry_count) == a <= retry_count

\* line 92: range(1, retry_count + 1) has an element after `attempt`
HasNextAttempt(a, retry_count) == a + 1 <= retry_count

\* lines 175, 185, 199-205: the request a url stands for
LockActionUrl(id, num) == Some([path |-> "lockAction", nukiId |-> id, action |-> num])
LockStateUrl(id) == Some([path |-> "lockState", nukiId |-> id, action |-> 0])

ActionNum(act) == IF act \in {"open", "openall"} THEN 1 ELSE 2

Sent(counter, path) == [counter EXCEPT ![path] = @ + 1]
Calls == net.list + net.info + net.lock

\* ---------------------------------------------------------------- Init
Init ==
    /\ pc = "load_config"
    /\ action \in {None} \cup {Some(a) : a \in Actions}
    /\ nuki_ip = None
    /\ nuki_token = None
    /\ args_nukiid = None
    /\ args_name = None
    /\ nuki_id = None
    /\ retry = 0
    /\ devices_data = <<>>
    /\ dev_idx = 0
    /\ url = None
    /\ attempt = 0
    /\ success = FALSE
    /\ last_resp = None
    /\ exit_error = "none"
    /\ net = [list |-> 0, info |-> 0, lock |-> 0]
    /\ attempts = 0
    /\ sleeps = 0
    /\ firstOk = 0
    /\ lastOutcome = "none"
    /\ reports = <<>>
    /\ runs = 0
    /\ received = None
    /\ printed_error = "none"

\* ------------------------------------------------------------- actions

\* lines 121-126: merge the flags with config.json.  args.nukiid, args.name
\* and nuki_id are read again only on the open/close/status path (lines
\* 144-152 and 199-205), so they are drawn only there.
ApplyOverrides ==
    /\ pc = "load_config"
    /\ \E aip \in OptStrings, cip \in OptStrings, atok \in OptStrings, ctok \in OptStrings :
          /\ nuki_ip' = PyOrStr(aip, cip)
          /\ nuki_token' = PyOrStr(atok, ctok)
    /\ \E aret \in ArgRetries, cret \in CfgRetries :
          retry' = EffectiveRetry(aret, cret)
    /\ IF action \in {Some(a) : a \in DeviceActions}
       THEN \E aid \in {None, Some(FlagId)}, cid \in {None, Some(ConfigId)},
               nm \in {None, Some(AbsentName)} \cup {Some(n) : n \in Names} :
               /\ args_nukiid' = aid
               /\ nuki_id' = PyOrNum(aid, cid)
               /\ args_name' = nm
       ELSE UNCHANGED <<args_nukiid, nuki_id, args_name>>
    /\ pc' = "validate"
    /\ UNCHANGED <<action, devices_data, dev_idx, url, attempt, success, last_resp,
                   exit_error, net, attempts, sleeps, firstOk, lastOutcome, reports,
                   runs, received, printed_error>>

\* lines 138-141: parser.error exits the process
Validate ==
    /\ pc = "validate"
    /\ IF MissingCredentials(nuki_ip, nuki_token)
       THEN pc' = "exit" /\ exit_error' = "credentials"
       ELSE pc' = "target" /\ UNCHANGED exit_error
    /\ UNCHANGED <<action, nuki_ip, nuki_token, args_nukiid, args_name, nuki_id, retry,
                   devices_data, dev_idx, url, attempt, success, last_resp,
                   net, attempts, sleeps, firstOk, lastOutcome, reports,
                   runs, received, printed_error>>

\* lines 144-145
ResolveTarget ==
    /\ pc = "target"
    /\ pc' = IF action \in {Some(a) : a \in DeviceActions}
             THEN IF NeedsNameResolution(args_nukiid, args_name)
                  THEN "resolve_name" ELSE "check_target"
             ELSE "dispatch"
    /\ UNCHANGED <<action, nuki_ip, nuki_token, args_nukiid, args_name, nuki_id, retry,
                   devices_data, dev_idx, url, attempt, success, last_resp,
                   exit_error, net, attempts, sleeps, firstOk, lastOutcome, reports,
                   runs, received, printed_error>>

\* the resolver as it would be if a failed fetch were tried again while the
\* retry budget lasts
ResolveNameRetried ==
    /\ pc = "resolve_name"
    /\ net' = Sent(net, "list")
    /\ \/ /\ IF net.list + 1 < retry
             THEN pc' = "resolve_name" /\ UNCHANGED exit_error
             ELSE pc' = "exit" /\ exit_error' = "resolution"
          /\ UNCHANGED <<devices_data, nuki_id>>
       \/ \E listed \in DeviceLists :
             /\ devices_data' = listed
             /\ IF FirstMatch(listed, args_name[1]) = None
                THEN /\ pc' = "exit"
                     /\ exit_error' = "resolution"
                     /\ UNCHANGED nuki_id
                ELSE /\ nuki_id' = FirstMatch(listed, args_name[1])
                     /\ pc' = "check_target"
                     /\ UNCHANGED exit_error
    /\ UNCHANGED <<action, nuki_ip, nuki_token, args_nukiid, args_name, retry,
                   dev_idx, url, attempt, success, last_resp,
                   attempts, sleeps, firstOk, lastOutcome, reports,
                   runs, received, printed_error>>

\* lines 146-150 with resolve_name_to_id (lines 75-86): one GET /list; a
\* RequestException and a miss both become the ValueError that main turns
\* into parser.error
ResolveName ==
    /\ pc = "resolve_name"
    /\ net' = Sent(net, "list")
    /\ \/ /\ pc' = "exit"
          /\ exit_error' = "resolution"
          /\ UNCHANGED <<devices_data, nuki_id>>
       \/ \E listed \in DeviceLists :
             /\ devices_data' = listed
             /\ IF FirstMatch(listed, args_name[1]) = None
                THEN /\ pc' = "exit"
                     /\ exit_error' = "resolution"
                     /\ UNCHANGED nuki_id
                ELSE /\ nuki_id' = FirstMatch(listed, args_name[1])
                     /\ pc' = "check_target"
                     /\ UNCHANGED exit_error
    /\ UNCHANGED <<action, nuki_ip, nuki_token, args_nukiid, args_name, retry,
                   dev_idx, url, attempt, success, last_resp,
                   attempts, sleeps, firstOk, lastOutcome, reports,
                   runs, received, printed_error>>

\* lines 151-152
CheckTarget ==
    /\ pc = "check_target"
    /\ IF MissingTarget(nuki_id)
       THEN pc' = "exit" /\ exit_error' = "missing_target"
       ELSE pc' = "dispatch" /\ UNCHANGED exit_error
    /\ UNCHANGED <<action, nuki_ip, nuki_token, args_nukiid, args_name, nuki_id, retry,
                   devices_data, dev_idx, url, attempt, success, last_resp,
                   net, attempts, sleeps, firstOk, lastOutcome, reports,
                   runs, received, printed_error>>

\* the list action as it would be if a failed request were tried again while
\* the retry budget lasts
ListDevicesRetried ==
    /\ pc = "dispatch"
    /\ action = Some("list")
    /\ net' = Sent(net, "list")
    /\ \/ /\ UNCHANGED devices_data
          /\ printed_error' = "list"
          /\ pc' = IF net.list + 1 < retry THEN "dispatch" ELSE "done"
       \/ /\ \E listed \in DeviceLists : devices_data' = listed
          /\ UNCHANGED printed_error
          /\ pc' = "done"
    /\ UNCHANGED <<action, nuki_ip, nuki_token, args_nukiid, args_name, nuki_id, retry,
                   dev_idx, url, attempt, success, last_resp,
                   exit_error, attempts, sleeps, firstOk, lastOutcome, reports,
                   runs, received>>

\* lines 154-163: one GET /list, printed or reported, then return
ListDevices ==
    /\ pc = "dispatch"
    /\ action = Some("list")
    /\ net' = Sent(net, "list")
    /\ \/ UNCHANGED devices_data /\ printed_error' = "list"
       \/ \E listed \in DeviceLists : devices_data' = listed /\ UNCHANGED printed_error
    /\ pc' = "done"
    /\ UNCHANGED <<action, nuki_ip, nuki_token, args_nukiid, args_name, nuki_id, retry,
                   dev_idx, url, attempt, success, last_resp,
                   exit_error, attempts, sleeps, firstOk, lastOutcome, reports,
                   runs, received>>

\* lines 165-172: one GET /info, printed or reported, then return
BridgeInfo ==
    /\ pc = "dispatch"
    /\ action = Some("info")
    /\ net' = Sent(net, "info")
    /\ \/ printed_error' = "info"
       \/ UNCHANGED printed_error
    /\ pc' = "done"
    /\ UNCHANGED <<action, nuki_ip, nuki_token, args_nukiid, args_name, nuki_id, retry,
                   devices_data, dev_idx, url, attempt, success, last_resp,
                   exit_error, attempts, sleeps, firstOk, lastOutcome, reports,
                   runs, received>>

\* the fetch as it would be if a failed request were tried again while the
\* retry budget lasts
BulkFetchRetried ==
    /\ pc = "dispatch"
    /\ action \in {Some(a) : a \in BulkActions}
    /\ net' = Sent(net, "list")
    /\ \/ /\ IF net.list + 1 < retry
             THEN pc' = "dispatch" /\ UNCHANGED printed_error
             ELSE pc' = "done" /\ printed_error' = "bulk"
          /\ UNCHANGED devices_data
       \/ \E listed \in DeviceLists :
             /\ devices_data' = listed
             /\ pc' = "bulk_loop"
             /\ UNCHANGED printed_error
    /\ dev_idx' = 0
    /\ UNCHANGED <<action, nuki_ip, nuki_token, args_nukiid, args_name, nuki_id, retry,
                   url, attempt, success, last_resp,
                   exit_error, attempts, sleeps, firstOk, lastOutcome, reports,
                   runs, received>>

\* lines 174-181 and 191-193: one GET /list; a RequestException ends the run
BulkFetch ==
    /\ pc = "dispatch"
    /\ action \in {Some(a) : a \in BulkActions}
    /\ net' = Sent(net, "list")
    /\ \/ pc' = "done" /\ printed_error' = "bulk" /\ UNCHANGED devices_data
       \/ \E listed \in DeviceLists :
             /\ devices_data' = listed
             /\ pc' = "bulk_loop"
             /\ UNCHANGED printed_error
    /\ dev_idx' = 0
    /\ UNCHANGED <<action, nuki_ip, nuki_token, args_nukiid, args_name, nuki_id, retry,
                   url, attempt, success, last_resp,
                   exit_error, attempts, sleeps, firstOk, lastOutcome, reports,
                   runs, received>>

\* the loop as it would be over reversed(devices_data)
BulkNextReversed ==
    /\ pc = "bulk_loop"
    /\ IF dev_idx < Len(devices_data)
       THEN /\ dev_idx' = dev_idx + 1
            /\ url' = LockActionUrl(devices_data[Len(devices_data) - dev_idx].nukiId, ActionNum(action[1]))
            /\ pc' = "exec_enter"
       ELSE /\ pc' = "done"
            /\ UNCHANGED <<dev_idx, url>>
    /\ UNCHANGED <<action, nuki_ip, nuki_token, args_nukiid, args_name, nuki_id, retry,
                   devices_data, attempt, success, last_resp,
                   exit_error, net, attempts, sleeps, firstOk, lastOutcome, reports,
                   runs, received, printed_error>>

\* lines 182-186: the next device of the list, or the end of the loop
BulkNext ==
    /\ pc = "bulk_loop"
    /\ IF dev_idx < Len(devices_data)
       THEN /\ dev_idx' = dev_idx + 1
            /\ url' = LockActionUrl(devices_data[dev_idx + 1].nukiId, ActionNum(action[1]))
            /\ pc' = "exec_enter"
       ELSE /\ pc' = "done"
            /\ UNCHANGED <<dev_idx, url>>
    /\ UNCHANGED <<action, nuki_ip, nuki_token, args_nukiid, args_name, nuki_id, retry,
                   devices_data, attempt, success, last_resp,
                   exit_error, net, attempts, sleeps, firstOk, lastOutcome, reports,
                   runs, received, printed_error>>

\* lines 195-208: the url of the single-device call (None when no action
\* keyword was given: argparse accepts that, nargs='?')
SingleCall ==
    /\ pc = "dispatch"
    /\ action \in {None} \cup {Some(a) : a \in DeviceActions}
    /\ url' = IF action = None THEN None
              ELSE IF action[1] = "status" THEN LockStateUrl(nuki_id[1])
              ELSE LockActionUrl(nuki_id[1], ActionNum(action[1]))
    /\ pc' = "exec_enter"
    /\ UNCHANGED <<action, nuki_ip, nuki_token, args_nukiid, args_name, nuki_id, retry,
                   devices_data, dev_idx, attempt, success, last_resp,
                   exit_error, net, attempts, sleeps, firstOk, lastOutcome, reports,
                   runs, received, printed_error>>

\* lines 90-92: enter perform_action_with_retry
ExecEnter ==
    /\ pc = "exec_enter"
    /\ success' = FALSE
    /\ last_resp' = None
    /\ attempts' = 0
    /\ sleeps' = 0
    /\ firstOk' = 0
    /\ lastOutcome' = "none"
    /\ runs' = runs + 1
    /\ received' = None
    /\ IF HasNextAttempt(0, retry)
       THEN attempt' = 1 /\ pc' = "exec_attempt"
       ELSE attempt' = 0 /\ pc' = "exec_return"
    /\ UNCHANGED <<action, nuki_ip, nuki_token, args_nukiid, args_name, nuki_id, retry,
                   devices_data, dev_idx, url, exit_error, net, reports,
                   printed_error>>

\* the loop as it would be without the break of line 99
AfterJudgementNoBreak(ok) == "exec_sleep"

\* lines 99 and 102: break out of the loop on success, else go on to the sleep
AfterJudgement(ok) == IF ok THEN "exec_return" ELSE "exec_sleep"

\* the attempt as it would be if the except clause reset last_resp
ExecAttemptClearing ==
    /\ pc = "exec_attempt"
    /\ attempts' = attempts + 1
    /\ net' = IF url = None THEN net ELSE Sent(net, "lock")
    /\ \/ /\ lastOutcome' = "error"
          /\ pc' = "exec_sleep"
          /\ last_resp' = None
          /\ UNCHANGED <<success, firstOk, received>>
       \/ /\ url # None
          /\ \E body \in Bodies :
                /\ received' = Some(body)
                /\ last_resp' = Some(body)
                /\ success' = JudgedSuccessful(body)
                /\ lastOutcome' = IF JudgedSuccessful(body) THEN "ok" ELSE "rejected"
                /\ firstOk' = IF JudgedSuccessful(body) /\ firstOk = 0 THEN attempt ELSE firstOk
                /\ pc' = AfterJudgement(JudgedSuccessful(body))
    /\ UNCHANGED <<action, nuki_ip, nuki_token, args_nukiid, args_name, nuki_id, retry,
                   devices_data, dev_idx, url, attempt, exit_error, sleeps, reports,
                   runs, printed_error>>

\* the attempt as it would be if time.sleep stood in the except clause: a
\* rejected body goes straight on to the next attempt
ExecAttemptSleepOnErrorOnly ==
    /\ pc = "exec_attempt"
    /\ attempts' = attempts + 1
    /\ net' = IF url = None THEN net ELSE Sent(net, "lock")
    /\ \/ /\ lastOutcome' = "error"
          /\ pc' = "exec_sleep"
          /\ UNCHANGED <<success, last_resp, firstOk, received, attempt>>
       \/ /\ url # None
          /\ \E body \in Bodies :
                /\ received' = Some(body)
                /\ last_resp' = Some(body)
                /\ success' = JudgedSuccessful(body)
                /\ lastOutcome' = IF JudgedSuccessful(body) THEN "ok" ELSE "rejected"
                /\ firstOk' = IF JudgedSuccessful(body) /\ firstOk = 0 THEN attempt ELSE firstOk
                /\ IF ~JudgedSuccessful(body) /\ HasNextAttempt(attempt, retry)
                   THEN attempt' = attempt + 1 /\ pc' = "exec_attempt"
                   ELSE pc' = "exec_return" /\ UNCHANGED attempt
    /\ UNCHANGED <<action, nuki_ip, nuki_token, args_nukiid, args_name, nuki_id, retry,
                   devices_data, dev_idx, url, exit_error, sleeps, reports,
                   runs, printed_error>>

\* the attempt as it would be if line 98 were missing (break without setting
\* success)
ExecAttemptNoFlag ==
    /\ pc = "exec_attempt"
    /\ attempts' = attempts + 1
    /\ net' = IF url = None THEN net ELSE Sent(net, "lock")
    /\ \/ /\ lastOutcome' = "error"
          /\ pc' = "exec_sleep"
          /\ UNCHANGED <<last_resp, firstOk, received>>
       \/ /\ url # None
          /\ \E body \in Bodies :
                /\ received' = Some(body)
                /\ last_resp' = Some(body)
                /\ lastOutcome' = IF JudgedSuccessful(body) THEN "ok" ELSE "rejected"
                /\ firstOk' = IF JudgedSuccessful(body) /\ firstOk = 0 THEN attempt ELSE firstOk
                /\ pc' = AfterJudgement(JudgedSuccessful(body))
    /\ UNCHANGED <<action, nuki_ip, nuki_token, args_nukiid, args_name, nuki_id, retry,
                   devices_data, dev_idx, url, attempt, success, exit_error, sleeps, reports,
                   runs, printed_error>>

\* lines 93-101: one attempt.  requests.get(None) raises MissingSchema (a
\* RequestException) before anything is sent.
ExecAttempt ==
    /\ pc = "exec_attempt"
    /\ attempts' = attempts + 1
    /\ net' = IF url = None THEN net ELSE Sent(net, "lock")
    /\ \/ /\ lastOutcome' = "error"
          /\ pc' = "exec_sleep"
          /\ UNCHANGED <<success, last_resp, firstOk, received>>
       \/ /\ url # None
          /\ \E body \in Bodies :
                /\ received' = Some(body)
                /\ last_resp' = Some(body)
                /\ success' = JudgedSuccessful(body)
                /\ lastOutcome' = IF JudgedSuccessful(body) THEN "ok" ELSE "rejected"
                /\ firstOk' = IF JudgedSuccessful(body) /\ firstOk = 0 THEN attempt ELSE firstOk
                /\ pc' = AfterJudgement(JudgedSuccessful(body))
    /\ UNCHANGED <<action, nuki_ip, nuki_token, args_nukiid, args_name, nuki_id, retry,
                   devices_data, dev_idx, url, attempt, exit_error, sleeps, reports,
                   runs, printed_error>>

\* the loop as it would be as a while loop that never advances `attempt`
ExecSleepStuck ==
    /\ pc = "exec_sleep"
    /\ sleeps' = sleeps + 1
    /\ IF attempt <= retry
       THEN pc' = "exec_attempt" /\ UNCHANGED attempt
       ELSE pc' = "exec_return" /\ UNCHANGED attempt
    /\ UNCHANGED <<action, nuki_ip, nuki_token, args_nukiid, args_name, nuki_id, retry,
                   devices_data, dev_idx, url, success, last_resp,
                   exit_error, net, attempts, firstOk, lastOutcome, reports,
                   runs, received, printed_error>>

\* line 102, then the next element of range(1, retry_count + 1) or line 103
ExecSleep ==
    /\ pc = "exec_sleep"
    /\ sleeps' = sleeps + 1
    /\ IF HasNextAttempt(attempt, retry)
       THEN attempt' = attempt + 1 /\ pc' = "exec_attempt"
       ELSE pc' = "exec_return" /\ UNCHANGED attempt
    /\ UNCHANGED <<action, nuki_ip, nuki_token, args_nukiid, args_name, nuki_id, retry,
                   devices_data, dev_idx, url, success, last_resp,
                   exit_error, net, attempts, firstOk, lastOutcome, reports,
                   runs, received, printed_error>>

\* lines 103 and 186-190: back in the loop of openall/closeall, one line per
\* device
BulkReport ==
    /\ pc = "exec_return"
    /\ action \in {Some(a) : a \in BulkActions}
    /\ reports' = Append(reports, [nukiId |-> devices_data[dev_idx].nukiId, ok |-> success])
    /\ pc' = "bulk_loop"
    /\ UNCHANGED <<action, nuki_ip, nuki_token, args_nukiid, args_name, nuki_id, retry,
                   devices_data, dev_idx, url, attempt, success, last_resp,
                   exit_error, net, attempts, sleeps, firstOk, lastOutcome,
                   runs, received, printed_error>>

\* lines 103 and 208-212
SingleReport ==
    /\ pc = "exec_return"
    /\ action \notin {Some(a) : a \in BulkActions}
    /\ pc' = "done"
    /\ UNCHANGED <<action, nuki_ip, nuki_token, args_nukiid, args_name, nuki_id, retry,
                   devices_data, dev_idx, url, attempt, success, last_resp,
                   exit_error, net, attempts, sleeps, firstOk, lastOutcome, reports,
                   runs, received, printed_error>>

Next ==
    \/ ApplyOverrides
    \/ Validate
    \/ ResolveTarget
    \/ ResolveName
    \/ CheckTarget
    \/ ListDevices
    \/ BridgeInfo
    \/ BulkFetch
    \/ BulkNext
    \/ SingleCall
    \/ ExecEnter
    \/ ExecAttempt
    \/ ExecSleep
    \/ BulkReport
    \/ SingleReport

Spec == Init /\ [][Next]_vars

TypeOK ==
    /\ pc \in {"load_config", "validate", "target", "resolve_name", "check_target",
               "dispatch", "bulk_loop", "exec_enter", "exec_attempt", "exec_sleep",
               "exec_return", "done", "exit"}
    /\ retry \in (-1)..(IF MaxRetry > DefaultRetry THEN MaxRetry ELSE DefaultRetry)
    /\ devices_data \in DeviceLists
    /\ last_resp \in {None} \cup {Some(b) : b \in Bodies}
    /\ exit_error \in {"none", "credentials", "resolution", "missing_target"}
    /\ received \in {None} \cup {Some(b) : b \in Bodies}
    /\ printed_error \in {"none", "list", "info", "bulk"}
    /\ runs \in 0..MaxDevices

\* ------------------------------------------------------------- claims

OnDevicePath == action \in {Some(a) : a \in DeviceActions}
OnBulkPath == action \in {Some(a) : a \in BulkActions}
\* the positions of devices_data whose name is the name given with --name
Matches == {i \in 1..Len(devices_data) : devices_data[i].name = args_name[1]}

\* C1: with a budget N >= 1, a run in which no attempt was judged successful
\* returns succeeded=false having made exactly N attempts.
C1_AllFailExactlyN ==
    (pc = "exec_return" /\ retry >= 1 /\ firstOk = 0)
        => (~success /\ attempts = retry)

C1_Witness ==
    /\ pc = "exec_return"
    /\ retry = DefaultRetry
    /\ firstOk = 0
    /\ attempts = retry
    /\ lastOutcome = "rejected"

\* C2: with a budget N >= 1, a run in which every attempt failed has invoked
\* the delay exactly N-1 times when it returns (no delay after the last
\* attempt).
C2_DelaysOneLessThanAttempts ==
    (pc = "exec_return" /\ retry >= 1 /\ firstOk = 0) => sleeps = retry - 1

\* C3: once attempt k is the first one judged successful, the run has made
\* exactly k attempts and k-1 delays, reports success, and makes no further
\* attempt and no further delay.
C3_StopsAtFirstSuccess ==
    firstOk >= 1 =>
        /\ firstOk <= retry
        /\ success
        /\ attempts = firstOk
        /\ sleeps = firstOk - 1
        /\ pc \notin {"exec_attempt", "exec_sleep"}

C3_Witness ==
    /\ pc = "exec_return"
    /\ firstOk = 2
    /\ retry = DefaultRetry
    /\ success

\* C4: with a budget N >= 1 a run never makes more than N attempts, and it
\* has made at least one when it returns.
C4_AttemptsWithinBudget ==
    retry >= 1 =>
        /\ attempts <= retry
        /\ pc = "exec_return" => attempts >= 1

C4_Witness ==
    /\ pc = "exec_return"
    /\ retry = DefaultRetry
    /\ attempts = retry
    /\ lastOutcome = "error"

\* the bodies the policy of the specification accepts, and those it rejects
AcceptedBodies ==
    { [success |-> "true", state |-> FALSE], [success |-> "true", state |-> TRUE],
      [success |-> "absent", state |-> TRUE], [success |-> "false", state |-> TRUE] }
RejectedBodies ==
    { [success |-> "false", state |-> FALSE], [success |-> "absent", state |-> FALSE] }

\* C5: an attempt that obtained a body is judged successful exactly when the
\* body has success=true or a state field; a rejected body sends the run on to
\* the next attempt and ends it only when the budget is used up.
C5_SuccessPolicy ==
    (pc \in {"exec_sleep", "exec_return"} /\ lastOutcome \in {"ok", "rejected"}) =>
        /\ last_resp # None
        /\ success <=> last_resp[1] \in AcceptedBodies
        /\ ~success <=> last_resp[1] \in RejectedBodies
        /\ success => pc = "exec_return"
        /\ (~success /\ pc = "exec_return") => attempts = retry

C5_Witness ==
    /\ pc = "exec_return"
    /\ success
    /\ last_resp = Some([success |-> "false", state |-> TRUE])

\* C6: in openall/closeall every listed device gets a run of at least one
\* attempt and a report that says ok exactly when its own run succeeded.
C6_EveryDeviceAttempted ==
    OnBulkPath =>
        /\ pc = "exec_return" => attempts >= 1
        /\ (pc = "bulk_loop" /\ dev_idx >= 1) =>
              /\ Len(reports) = dev_idx
              /\ reports[dev_idx] = [nukiId |-> devices_data[dev_idx].nukiId, ok |-> success]
        /\ (pc = "done" /\ net.list = 1 /\ devices_data # <<>>) =>
              /\ Len(reports) = Len(devices_data)
              /\ net.lock >= Len(devices_data)

\* the part of C6 that the code keeps: with a budget of at least 1, no device
\* is skipped whatever happened to the devices before it
C6_NoEarlyAbortForPositiveBudget ==
    (OnBulkPath /\ retry >= 1) =>
        /\ pc = "exec_return" => attempts >= 1
        /\ Len(reports) <= dev_idx
        /\ pc = "bulk_loop" => Len(reports) = dev_idx
        /\ (pc = "bulk_loop" /\ dev_idx >= 1) => reports[dev_idx].ok = success
        /\ \A i \in 1..Len(reports) : reports[i].nukiId = devices_data[i].nukiId
        /\ (pc = "done" /\ net.list = 1 /\ devices_data # <<>>) =>
                /\ Len(reports) = Len(devices_data)
                /\ net.lock >= Len(devices_data)

\* the example of the specification: three devices, the second one exhausts
\* its budget, the first and the third are unlocked
C6_ExampleReached ==
    /\ action = Some("openall")
    /\ pc = "done"
    /\ retry >= 1
    /\ Len(reports) = 3
    /\ reports[1].ok /\ ~reports[2].ok /\ reports[3].ok

\* C7: when the address or the token is unresolved, no request is ever sent
\* and the run ends in the credentials error.
C7_NoCallWithoutCredentials ==
    (pc # "load_config" /\ (nuki_ip = None \/ nuki_token = None)) =>
        /\ Calls = 0
        /\ pc \in {"validate", "exit"}
        /\ pc = "exit" => exit_error = "credentials"

C7_Witness ==
    /\ pc = "exit"
    /\ exit_error = "credentials"
    /\ nuki_ip # None
    /\ nuki_token = None
    /\ action = Some("openall")

\* C8: a run of open, close or status that ends with the missing-device-target
\* error has sent no request.
C8_MissingTargetBeforeAnyCall ==
    exit_error = "missing_target" => Calls = 0

\* C9: after a resolution that did not fail, nuki_id is the id of the first
\* entry of the list that carries the given name; the resolution fails only
\* when no entry carries it.
C9_FirstMatchWins ==
    (OnDevicePath /\ net.list = 1) =>
        /\ exit_error # "resolution" =>
              /\ Matches # {}
              /\ \E i \in Matches :
                    /\ \A j \in Matches : i <= j
                    /\ nuki_id = Some(devices_data[i].nukiId)
        /\ exit_error = "resolution" => Matches = {}

C9_Witness ==
    /\ OnDevicePath
    /\ pc = "dispatch"
    /\ Len(devices_data) = 3
    /\ Matches = {1, 3}
    /\ devices_data[1].nukiId # devices_data[3].nukiId
    /\ nuki_id = Some(devices_data[1].nukiId)

\* C10: a failed resolution (fetch failed, or no entry carries the name) ends
\* the run at once: one list request whatever the budget, and no lockAction
\* or lockState request.
C10_ResolutionFailureIsFinal ==
    /\ exit_error = "resolution" =>
          /\ pc = "exit"
          /\ net = [list |-> 1, info |-> 0, lock |-> 0]
          /\ attempts = 0
    /\ (OnDevicePath /\ net.list >= 1 /\ Matches = {}) =>
          /\ pc = "exit"
          /\ exit_error = "resolution"
          /\ net = [list |-> 1, info |-> 0, lock |-> 0]

C10_Witness ==
    /\ exit_error = "resolution"
    /\ retry = DefaultRetry
    /\ devices_data # <<>>
    /\ Calls = 1

\* the positions from which perform_action_with_retry has been called
AfterCall == {"exec_attempt", "exec_sleep", "exec_return", "done"}

\* C11: the id in the request of open/close/status is the explicit id when
\* one is given (no list request is sent then, name or not), else the id of
\* the first list entry carrying the given name (never the configured one),
\* else the configured id; and the retry loop is called exactly once for it.
C11_TargetPrecedence ==
    (OnDevicePath /\ url # None) =>
        /\ args_nukiid # None =>
              /\ url[1].nukiId = args_nukiid[1]
              /\ net.list = 0
        /\ (args_nukiid = None /\ args_name # None) =>
              /\ net.list = 1
              /\ Matches # {}
              /\ \E i \in Matches :
                    /\ \A j \in Matches : i <= j
                    /\ url[1].nukiId = devices_data[i].nukiId
              /\ url[1].nukiId # ConfigId
        /\ (args_nukiid = None /\ args_name = None) =>
              /\ url[1].nukiId = ConfigId
              /\ net.list = 0
        /\ runs <= 1
        /\ pc \in AfterCall => runs = 1

C11_Witness ==
    /\ OnDevicePath
    /\ pc = "done"
    /\ args_nukiid = Some(FlagId)
    /\ args_name = Some("Front")
    /\ url[1].nukiId = FlagId
    /\ Calls = net.lock
    /\ runs = 1

\* C12: list and info send exactly one request whatever happens to it and
\* whatever the budget: no retry loop, no delay, and the run is over once the
\* request has been made.
C12_ListInfoSingleRequest ==
    action \in {Some("list"), Some("info")} =>
        /\ Calls <= 1
        /\ net.lock = 0
        /\ action = Some("list") => net.info = 0
        /\ action = Some("info") => net.list = 0
        /\ runs = 0 /\ attempts = 0 /\ sleeps = 0
        /\ pc \in {"load_config", "validate", "target", "dispatch", "done", "exit"}
        /\ pc = "done" <=> Calls = 1
        /\ printed_error # "none" => pc = "done"

C12_Witness ==
    /\ action = Some("list")
    /\ pc = "done"
    /\ printed_error = "list"
    /\ retry = DefaultRetry
    /\ Calls = 1

\* the positions inside perform_action_with_retry
InRetryLoop == {"exec_enter", "exec_attempt", "exec_sleep", "exec_return"}

\* C13: in openall/closeall every request of the retry loop is for the device
\* at the current position of the list, and it is issued only when every
\* device before it has been reported, in list order.  (The program has one
\* thread and requests.get blocks, so a request is one step and no second one
\* can be in flight.)
C13_OneDeviceAtATime ==
    (OnBulkPath /\ pc \in InRetryLoop) =>
        /\ dev_idx \in 1..Len(devices_data)
        /\ url # None
        /\ url[1].path = "lockAction"
        /\ url[1].nukiId = devices_data[dev_idx].nukiId
        /\ Len(reports) = dev_idx - 1
        /\ \A i \in 1..Len(reports) : reports[i].nukiId = devices_data[i].nukiId
        /\ pc # "exec_enter" => runs = dev_idx
        /\ net.list = 1

C13_Witness ==
    /\ OnBulkPath
    /\ pc = "exec_attempt"
    /\ dev_idx = 2
    /\ attempts = 1
    /\ Len(reports) = 1
    /\ devices_data[1].nukiId # devices_data[2].nukiId

\* C14: with a budget N >= 1 the retry loop returns a last_result that is not
\* None, whatever the attempts did.
C14_LastResultPresent ==
    (pc = "exec_return" /\ retry >= 1) => last_resp # None

\* C15: last_resp is always the body the bridge sent last in this run: an
\* attempt that got a body records it whether or not it was judged
\* successful, and an attempt that raised leaves the record as it was.
C15_LastRespIsLastBody ==
    /\ last_resp = received
    /\ lastOutcome \in {"ok", "rejected"} => last_resp # None
    /\ (lastOutcome = "error" /\ attempts = 1) => last_resp = None

C15_Witness ==
    /\ pc = "exec_return"
    /\ attempts = 2
    /\ lastOutcome = "error"
    /\ last_resp = Some([success |-> "false", state |-> FALSE])

\* C16: the retry loop makes at least one attempt whatever budget it is
\* handed, budgets of zero and below included.
C16_AtLeastOneAttempt ==
    pc = "exec_return" => attempts >= 1

\* C17: openall/closeall send exactly one list request whatever the budget,
\* and when it fails the run ends with its error message and without any
\* lockAction request.
C17_BulkFetchOnce ==
    OnBulkPath =>
        /\ net.list <= 1
        /\ net.info = 0
        /\ pc \in {"bulk_loop", "exec_enter", "exec_attempt", "exec_sleep", "exec_return", "done"}
              => net.list = 1
        /\ printed_error = "bulk" =>
              /\ pc = "done"
              /\ net = [list |-> 1, info |-> 0, lock |-> 0]
              /\ runs = 0
              /\ reports = <<>>
        /\ net.lock > 0 => printed_error = "none"

C17_Witness ==
    /\ action = Some("closeall")
    /\ printed_error = "bulk"
    /\ retry = DefaultRetry
    /\ pc = "done"
    /\ Calls = 1

\* C18: within one run the number of delays taken when an attempt begins is
\* the number of attempts made before it: none before the first attempt, and
\* exactly one after each attempt that goes on to another, whether that
\* attempt raised or got a rejected body.
C18_OneDelayBetweenAttempts ==
    /\ pc = "exec_attempt" =>
          /\ attempt = attempts + 1
          /\ sleeps = attempts
    /\ pc = "exec_sleep" =>
          /\ attempt = attempts
          /\ sleeps = attempts - 1
          /\ lastOutcome \in {"error", "rejected"}

C18_Witness ==
    /\ pc = "exec_attempt"
    /\ attempts = 2
    /\ sleeps = 2
    /\ lastOutcome = "rejected"
    /\ last_resp = Some([success |-> "absent", state |-> FALSE])

\* C19: at the return of the retry loop, success is true exactly when the
\* last attempt was judged successful; last_resp is then that attempt's body
\* and an accepted one; when success is false no attempt of the run was
\* judged successful and no accepted body is on record.
C19_OutcomeAgreesWithAttempts ==
    pc = "exec_return" =>
        /\ success <=> lastOutcome = "ok"
        /\ success =>
              /\ firstOk = attempts
              /\ last_resp = received
              /\ last_resp # None
              /\ last_resp[1] \in AcceptedBodies
        /\ ~success =>
              /\ firstOk = 0
              /\ last_resp # None => last_resp[1] \in RejectedBodies

C19_Witness ==
    /\ pc = "exec_return"
    /\ success
    /\ attempts = 2
    /\ last_resp = Some([success |-> "true", state |-> FALSE])

\* the attempts a budget allows
Budget == IF retry >= 1 THEN retry ELSE 0
MaxBudget == IF MaxRetry > DefaultRetry THEN MaxRetry ELSE DefaultRetry

\* the requests an invocation may have sent: one list request and D*N
\* lockAction requests for openall/closeall, N requests and at most one list
\* request (for a name given without an id) for open/close/status
RequestBound ==
    /\ net.list <= 1
    /\ net.info <= 1
    /\ OnBulkPath => net.lock <= Len(devices_data) * Budget
    /\ OnDevicePath =>
          /\ net.lock <= Budget
          /\ (args_nukiid # None \/ args_name = None) => net.list = 0
    /\ ~(OnBulkPath \/ OnDevicePath) => net.lock = 0

\* a measure of the steps an invocation still has to take
PerDevice == 2 * Budget + 3
Top == MaxDevices * (2 * MaxBudget + 3) + 2 * MaxBudget + 4
RunRank ==
    CASE pc = "exec_enter" -> 2 * Budget + 2
      [] pc = "exec_attempt" -> 2 * (Budget - attempt) + 3
      [] pc = "exec_sleep" -> 2 * (Budget - attempt) + 2
      [] pc = "exec_return" -> 1
Remaining == IF OnBulkPath THEN (Len(devices_data) - dev_idx) * PerDevice + 1 ELSE 0
Rank ==
    CASE pc \in {"done", "exit"} -> 0
      [] pc = "bulk_loop" -> Remaining
      [] pc \in InRetryLoop -> Remaining + RunRank
      [] pc = "dispatch" -> Top
      [] pc = "check_target" -> Top + 1
      [] pc = "resolve_name" -> Top + 2
      [] pc = "target" -> Top + 3
      [] pc = "validate" -> Top + 4
      [] pc = "load_config" -> Top + 5

\* C20: every invocation ends: each step lowers a measure that is never
\* negative, and the requests sent stay within 1 + D*N for openall/closeall
\* and within N plus one list request for open/close/status.
C20_BoundedRun ==
    /\ [](RequestBound /\ Rank >= 0)
    /\ [][Rank' < Rank]_vars

C20_Witness ==
    /\ action = Some("openall")
    /\ pc = "done"
    /\ retry = DefaultRetry
    /\ Len(devices_data) = 3
    /\ net.lock = 3 * retry
    /\ Calls = 1 + 3 * retry

====
